---- MODULE Spec2Model ----
(***************************************************************************)
(* Model of the vuelit component runtime (defineComponent and the free     *)
(* helper functions of index.ts).                                          *)
(*                                                                         *)
(* JavaScript values are named by their literal text ("0", "''", "'x'",    *)
(* "null", "undefined"), so that truthiness is something the model         *)
(* computes.  Every operation is one action; the events it performs, in    *)
(* order, are recorded in `log`, which holds the events of the most recent *)
(* operation only.                                                         *)
(***************************************************************************)
EXTENDS Integers, Sequences, FiniteSets, TLC

\* ------------------------------------------------------------------ bounds
MaxNodes == 3
MaxCb == 2
MaxSetupOps == 2
MaxValues == 2

\* --------------------------------------------------------------- constants
Null == 0
Nodes == 1 .. MaxNodes

\* the element the lifecycle scenario follows
LifeNodes == {1}

Phases == {"onBeforeMount", "onMounted", "onBeforeUpdate", "onUpdated", "onUnmounted"}

\* the property names in use, and the propDefs of the demo component
\* 'custom-panel'; a name that a propDefs map does not define maps to Absent
PropKeys == {"title", "age"}
PropDefs == [title |-> "'1'", age |-> "42"]
Absent == "<absent>"

\* the propDefs maps components are defined with in the property scenario
DefMaps == [PropKeys -> {Absent, "'1'", "42"}]

\* the values the platform delivers to attributeChangedCallback: strings, or
\* null when the attribute is removed
AttrVals == {"'42'", "null"}

\* the names and values handed to expose
ExposeNames == {"open", "title"}
ExposeVals == {"f1", "f2"}

\* a member of an element: its value and whether it can be assigned
Member(v, writable) == [value |-> v, writable |-> writable]
NoMember == Member(Absent, FALSE)

\* reference cells (ref, computed) and the values they hold
Cells == {1, 2}
CellVals == {"5", "0"}

\* an interpolated value of a render result: a plain value or a reference cell
Plain(v) == [ref |-> 0, value |-> v]
RefTo(c) == [ref |-> c, value |-> ""]
IsRef(x) == x.ref # 0

\* values written to properties by accessors, attributes and handlers
PropVals == {"'1'", "'123'"}

\* the reactive fields the render function of 'custom-panel' reads
Reads == {"title"}

\* whether the options of the component carry style text
Styles == TRUE

\* injection keys (Symbols) and the values bound to them
InjKeys == {"k1", "k2"}
CtxVals == {"0", "'x'"}
NoBinding == "<no binding>"

\* defaults handed to inject; "undefined" is an omitted argument
Defaults == {"undefined", "0", "'d'"}

\* lifecycle callbacks: "log" only prints, "set" writes the title property
\* through the props object of its closure
Cbs == {"log", "set"}

\* JavaScript truthiness of the values used here
Falsy(v) == v \in {"0", "''", "false", "null", "undefined"}

\* a || b
Or(a, b) == IF Falsy(a) THEN b ELSE a

VARIABLES
    kind,             \* node -> "plain" (not upgraded) | "comp" | "failed"
    parent,           \* node -> parentNode (Null for a root)
    connected,        \* node -> whether the platform has connected the element
    props,            \* #props of each instance
    callbacks,        \* #callbacks of each instance: phase -> sequence
    context,          \* #context of each instance: key -> value or NoBinding
    isMounted,        \* the isMounted flag in the closure of each render effect
    deps,             \* the fields each render effect is subscribed to
    rendered,         \* the values last rendered into each root
    propDefs,         \* the propDefs the element class was defined with
    definition,       \* the defineComponent call: its arguments and the factory
    injected,         \* the value the setup function of each element got from inject
    cells,            \* the value each reference cell holds
    renderResult,     \* a render result handed to #resolveRefs, as it is now
    resolvedResult,   \* what #resolveRefs returned for it
    members,          \* the members expose defined on each element
    accessors,        \* the property accessors #initProps defined on each element
    currentInstance,  \* the module-level ambient pointer
    log               \* events of the most recent operation, in order

vars == <<kind, parent, connected, props, callbacks, context, isMounted, deps,
          rendered, propDefs, definition, injected, cells, renderResult,
          resolvedResult, members,
          accessors, currentInstance, log>>

\* the keys of the propDefs map: Object.keys(propDefs)
DefKeys == {k \in PropKeys : propDefs[k] # Absent}

\* static get observedAttributes()
ObservedAttributes == DefKeys

Ev(e, n, a, b) == [e |-> e, n |-> n, a |-> a, b |-> b]

\* the mutable part of the program an operation works on
World == [props |-> props, callbacks |-> callbacks, context |-> context,
          isMounted |-> isMounted, deps |-> deps, rendered |-> rendered,
          members |-> members, accessors |-> accessors, injected |-> injected,
          cur |-> currentInstance, log |-> <<>>, running |-> {}, threw |-> FALSE,
          setupOf |-> 0]

Emit(w, e, n, a, b) == [w EXCEPT !.log = Append(@, Ev(e, n, a, b))]

\* ------------------------------------------------- reactive props and effect
RECURSIVE SetProp(_, _, _, _)
RECURSIVE RenderEffect(_, _)
RECURSIVE ForEachCallback(_, _, _, _)
RECURSIVE Callback(_, _, _)

\* the render result of the render function of 'custom-panel': the static
\* strings and the interpolated values, a field and a reference cell
Template(w, n) ==
    [strings |-> "custom-panel",
     values |-> <<Plain(w.props[n]["title"]), RefTo(1)>>]

\* variant: a cell that holds a falsy value is left in place
ResolveRefs_KeepFalsy(r, store) ==
    [input |-> r,
     cells |-> store,
     output |-> [r EXCEPT !.values =
                    [i \in DOMAIN r.values |->
                        IF IsRef(r.values[i]) /\ ~Falsy(store[r.values[i].ref])
                        THEN Plain(store[r.values[i].ref])
                        ELSE r.values[i]]]]

\* variant: the values list of the argument is overwritten in place
ResolveRefs_InPlace(r, store) ==
    LET out == [r EXCEPT !.values =
                    [i \in DOMAIN r.values |->
                        IF IsRef(r.values[i]) THEN Plain(store[r.values[i].ref])
                        ELSE r.values[i]]]
    IN  [input |-> out, cells |-> store, output |-> out]

\* #resolveRefs applied to render result r while the cells hold `store`: the
\* argument and the cells as the call leaves them, and the returned object
ResolveRefs(r, store) ==
    [input |-> r,
     cells |-> store,
     output |-> [r EXCEPT !.values =
                    [i \in DOMAIN r.values |->
                        IF IsRef(r.values[i]) THEN Plain(store[r.values[i].ref])
                        ELSE r.values[i]]]]

\* variant: a write made while the effect runs starts another run inside it
Triggers_Reentrant(w, n, k, v) ==
    /\ w.props[n][k] # v
    /\ k \in w.deps[n]

\* variant: a write of any field re-runs the effect once it is established
Triggers_AnyField(w, n, k, v) ==
    /\ w.props[n][k] # v
    /\ w.deps[n] # {}
    /\ n \notin w.running

\* variant: a write re-runs the effect even when the value stays the same
Triggers_AnyWrite(w, n, k, v) ==
    /\ k \in w.deps[n]
    /\ n \notin w.running

\* whether a write to field k of instance n re-runs the render effect: the
\* value changed, the effect is subscribed to k and is not running already
Triggers(w, n, k, v) ==
    /\ w.props[n][k] # v
    /\ k \in w.deps[n]
    /\ n \notin w.running

\* variant: the container is shared by the elements of the class
SetProp_Shared(w, n, k, v) ==
    [Emit(w, "write", n, k, "changed")
        EXCEPT !.props = [m \in DOMAIN @ |->
                             IF w.accessors[m] # {} THEN [@[m] EXCEPT ![k] = v]
                             ELSE @[m]]]

\* this.#props[k] = v on the shallowReactive container
SetProp(w, n, k, v) ==
    LET changed == w.props[n][k] # v
        w1 == [Emit(w, "write", n, k, IF changed THEN "changed" ELSE "same")
                  EXCEPT !.props[n][k] = v]
    IN  IF Triggers(w, n, k, v) THEN RenderEffect(w1, n) ELSE w1

\* what a registered callback does when called
Callback(w, n, cb) ==
    IF cb = "set" THEN SetProp(w, n, "title", "'123'") ELSE w

\* this.#callbacks[phase].forEach(cb => cb.call(this, { component: this }))
ForEachCallback(w, n, phase, i) ==
    IF i > Len(w.callbacks[n][phase]) THEN w
    ELSE LET cb == w.callbacks[n][phase][i]
         IN  ForEachCallback(Callback(Emit(w, "cb", n, phase, cb), n, cb),
                             n, phase, i + 1)

\* variant: the update callbacks run only while the element is connected
BracketsPass_Connected(w, n) == w.isMounted[n] /\ connected[n]

\* variant: the update callbacks bracket the first pass too
BracketsPass_Always(w, n) == TRUE

\* whether a render pass is bracketed by the update callbacks
BracketsPass(w, n) == w.isMounted[n]

\* one execution of the function handed to effect()
RenderEffect(w, n) ==
    LET w0 == [w EXCEPT !.running = @ \cup {n}]
        w1 == IF BracketsPass(w0, n)
              THEN ForEachCallback(w0, n, "onBeforeUpdate", 1) ELSE w0
        w2 == [Emit(w1, "render", n,
                    IF w1.isMounted[n] THEN "update" ELSE "first",
                    w1.props[n]["title"])
                  EXCEPT !.rendered[n] = ResolveRefs(Template(w1, n), cells).output.values,
                         !.deps[n] = Reads]
        w3 == IF BracketsPass(w2, n)
              THEN ForEachCallback(w2, n, "onUpdated", 1)
              ELSE [w2 EXCEPT !.isMounted[n] = TRUE]
    IN  [w3 EXCEPT !.running = @ \ {n}]

\* ------------------------------------------------------- instance methods
\* variant: the new callback is put in front of the list
RegisterLifecycleCallback_Prepend(w, n, phase, cb) ==
    [Emit(w, "reg", n, phase, cb) EXCEPT !.callbacks[n][phase] = <<cb>> \o @]

\* this.#callbacks[phase].push(cb)
RegisterLifecycleCallback(w, n, phase, cb) ==
    [Emit(w, "reg", n, phase, cb) EXCEPT !.callbacks[n][phase] = Append(@, cb)]

\* variant: a new binding is handed to the children that asked for one before
ProvideM_Reresolve(w, n, k, v) ==
    [w EXCEPT !.context[n][k] = v,
              !.injected = [m \in DOMAIN @ |->
                               IF parent[m] = n /\ @[m] # Absent THEN v ELSE @[m]]]

\* this.#context.set(k, v)
ProvideM(w, n, k, v) == [w EXCEPT !.context[n][k] = v]

RECURSIVE InjectM(_, _, _, _)
RECURSIVE Get(_, _, _, _)

\* whether an element of the parent chain answers the lookup (injector.inject)
IsInjector(el) == kind[el] = "comp"

RECURSIVE Get_Sideways(_, _, _, _)
\* variant: the walk continues with the preceding element instead of the parent
Get_Sideways(w, el, k, d) ==
    IF el = Null THEN [w |-> w, val |-> Or(d, "null")]
    ELSE IF IsInjector(el)
         THEN InjectM(Emit(w, "consult", el, k, ""), el, k, "undefined")
         ELSE Get_Sideways(w, el - 1, k, d)

\* the inner function get(element) of inject
Get(w, el, k, d) ==
    IF el = Null THEN [w |-> w, val |-> Or(d, "null")]
    ELSE IF IsInjector(el)
         THEN InjectM(Emit(w, "consult", el, k, ""), el, k, "undefined")
         ELSE Get(w, parent[el], k, d)

\* what inject makes of the answer of the parent chain
Resolve(r, n, k, d) ==
    IF Falsy(r.val)
    THEN IF d = "undefined"
         THEN [w |-> Emit(r.w, "warn", n, k, ""), val |-> "null"]
         ELSE [w |-> r.w, val |-> Or(d, "null")]
    ELSE r

\* variant: a falsy local binding counts as no binding
HasLocal_Truthy(w, n, k) == w.context[n][k] # NoBinding /\ ~Falsy(w.context[n][k])

\* the local table decides before the parent chain is asked
HasLocal(w, n, k) == w.context[n][k] # NoBinding

\* inject(key, defaultValue) of an instance
InjectM(w, n, k, d) ==
    IF HasLocal(w, n, k) THEN [w |-> w, val |-> w.context[n][k]]
    ELSE Resolve(Get(w, parent[n], k, d), n, k, d)

\* ---------------------------------------------------------- free helpers
GetCurrentInstance(w) ==
    IF w.cur = Null THEN [w |-> Emit(w, "error", Null, "getCurrentInstance", ""), val |-> Null]
    ELSE [w |-> w, val |-> w.cur]

\* onBeforeMount .. onUnmounted
LifecycleMethod(w, phase, cb) ==
    IF w.cur # Null THEN RegisterLifecycleCallback(w, w.cur, phase, cb) ELSE w

ProvideF(w, k, v) ==
    LET g == GetCurrentInstance(w)
    IN  IF g.val # Null THEN ProvideM(g.w, g.w.cur, k, v) ELSE g.w

InjectF(w, k, d) ==
    LET g == GetCurrentInstance(w)
    IN  IF g.val # Null THEN InjectM(g.w, g.val, k, "undefined")
        ELSE [w |-> g.w, val |-> d]

\* whether Object.defineProperty(el, name, {writable?, value: v}) is accepted
\* on element n: a property accessor and a read-only member are not
\* configurable, so the first cannot be redefined and the second only with
\* the value it has
CanDefine(w, n, name, v, writable) ==
    /\ name \notin w.accessors[n]
    /\ LET m == w.members[n][name]
       IN  \/ m = NoMember
           \/ m.writable
           \/ m.value = v /\ ~writable

\* variant: every exposed member can be assigned
ExposeF_Writable(w, name, v, writable) ==
    LET g == GetCurrentInstance(w)
    IN  IF g.val = Null THEN g.w
        ELSE IF CanDefine(g.w, g.val, name, v, writable)
             THEN [Emit(g.w, "define", g.val, name, v)
                      EXCEPT !.members[g.val][name] = Member(v, TRUE)]
             ELSE [Emit(g.w, "typeError", g.val, name, v) EXCEPT !.threw = TRUE]

\* expose({name: v}, options) with options {} or {writable: true}:
\* Object.defineProperty(instance, name, {...options, value}); a member that
\* is writable stays writable when it is defined again
ExposeF(w, name, v, writable) ==
    LET g == GetCurrentInstance(w)
    IN  IF g.val = Null THEN g.w
        ELSE IF CanDefine(g.w, g.val, name, v, writable)
             THEN [Emit(g.w, "define", g.val, name, v)
                      EXCEPT !.members[g.val][name] =
                                 Member(v, writable \/ g.w.members[g.val][name].writable)]
             ELSE [Emit(g.w, "typeError", g.val, name, v) EXCEPT !.threw = TRUE]

\* ----------------------------------------------------------- construction
\* a setup function is a sequence of helper calls, possibly ending in a throw
Op(op, a, b) == [op |-> op, a |-> a, b |-> b]

SetupOps ==
    {Op("on", ph, cb) : ph \in Phases, cb \in Cbs}
    \cup {Op("provide", k, v) : k \in InjKeys, v \in CtxVals}
    \cup {Op("inject", k, d) : k \in InjKeys, d \in Defaults}
    \cup {Op("injectM", k, d) : k \in InjKeys, d \in Defaults}
    \cup {Op("expose", m, v) : m \in ExposeNames, v \in ExposeVals}
    \cup {Op("exposeW", m, v) : m \in ExposeNames, v \in ExposeVals}
    \cup {Op("create", ph, cb) : ph \in Phases, cb \in Cbs}
    \cup {Op("throw", "", "")}

\* the element a setup function creates, and the setup function of that
\* element: it registers one callback
NestedNode == 2
NestedScript(o) == <<Op("on", o.a, o.b)>>

\* const x = inject(...): the setup function keeps the value it was given
Keep(w, v) ==
    IF w.setupOf \in DOMAIN w.injected THEN [w EXCEPT !.injected[w.setupOf] = v]
    ELSE w

RECURSIVE RunOp(_, _)
RECURSIVE Constructor(_, _, _)

\* one call made by a setup function; w.setupOf is the element whose setup
\* function makes the call
RunOp(w, o) ==
    CASE o.op = "on" ->
            LifecycleMethod(Emit(w, "call", w.setupOf, o.a, o.b), o.a, o.b)
      [] o.op = "create" ->
            Constructor(Emit(w, "create", NestedNode, "", ""), NestedNode,
                        NestedScript(o))
      [] o.op = "provide" -> ProvideF(w, o.a, o.b)
      [] o.op = "inject" ->
            LET r == InjectF(Emit(w, "injectF", w.cur, o.a, o.b), o.a, o.b)
            IN  Keep(Emit(r.w, "return", w.cur, o.a, r.val), r.val)
      [] o.op = "injectM" ->
            LET r == InjectM(Emit(w, "injectM", w.setupOf, o.a, o.b),
                             w.setupOf, o.a, o.b)
            IN  Keep(Emit(r.w, "return", w.setupOf, o.a, r.val), r.val)
      [] o.op = "expose" ->
            ExposeF(Emit(w, "exposeF", w.cur, o.a, o.b), o.a, o.b, FALSE)
      [] o.op = "exposeW" ->
            ExposeF(Emit(w, "exposeFW", w.cur, o.a, o.b), o.a, o.b, TRUE)
      [] o.op = "throw" -> [w EXCEPT !.threw = TRUE]

RECURSIVE RunSetup(_, _, _)
RunSetup(w, script, i) ==
    IF i > Len(script) \/ w.threw THEN w
    ELSE RunSetup(RunOp(w, script[i]), script, i + 1)

\* variant: the accessor is defined but the default is not assigned
InitProp_NoDefault(w, n, k) ==
    [w EXCEPT !.accessors[n] = @ \cup {k}]

\* the body of the forEach of #initProps: Object.defineProperty(this, k, ...)
\* and this[k] = propDefs[k], which goes through the new setter
InitProp(w, n, k) ==
    SetProp([w EXCEPT !.accessors[n] = @ \cup {k}], n, k, propDefs[k])

\* variant: the getter answers with the default of the definition
GetProp_Default(w, n, k) == propDefs[k]

\* the getter defined by #initProps: return this.#props[k]
GetProp(w, n, k) == w.props[n][k]

RECURSIVE InitPropsFrom(_, _, _)
\* #initProps: an accessor per key of propDefs, assigned its default
InitPropsFrom(w, n, keys) ==
    IF keys = {} THEN w
    ELSE LET k == CHOOSE x \in keys : TRUE
         IN  InitPropsFrom(InitProp(w, n, k), n, keys \ {k})

InitProps(w, n) == InitPropsFrom(Emit(w, "initProps", n, "", ""), n, DefKeys)

\* how #initTemplate leaves the ambient pointer once the factory is done
AfterFactory(w, n) ==
    IF w.threw THEN w
    ELSE [Emit(w, "clearCurrent", n, "", "") EXCEPT !.cur = Null]

\* #initTemplate
InitTemplate(w, n, script) ==
    LET w1 == [Emit(w, "setCurrent", n, "", "") EXCEPT !.cur = n, !.setupOf = n]
        w2 == RunSetup(Emit(w1, "setup", n, "", ""), script, 1)
    IN  [AfterFactory(w2, n) EXCEPT !.setupOf = w.setupOf]

\* #initStyles
InitStyles(w, n) == IF Styles THEN Emit(w, "styles", n, "", "") ELSE w

\* variant: the style element is injected after the first render pass
AfterTemplate_StylesLast(w, n) ==
    LET w1 == ForEachCallback(w, n, "onBeforeMount", 1)
    IN  InitStyles(RenderEffect(Emit(w1, "effect", n, "", ""), n), n)

\* variant: the render effect is established before the before-mount callbacks
AfterTemplate_EffectFirst(w, n) ==
    LET w1 == RenderEffect(Emit(InitStyles(w, n), "effect", n, "", ""), n)
    IN  ForEachCallback(w1, n, "onBeforeMount", 1)

\* the constructor steps that follow #initTemplate
AfterTemplate(w, n) ==
    LET w1 == ForEachCallback(w, n, "onBeforeMount", 1)
        w2 == InitStyles(w1, n)
    IN  RenderEffect(Emit(w2, "effect", n, "", ""), n)

\* the constructor of the element class
Constructor(w, n, script) ==
    LET w1 == InitTemplate(InitProps(w, n), n, script)
    IN  IF w1.threw THEN w1 ELSE AfterTemplate(w1, n)

\* ------------------------------------------------------------------ state
Unrendered == <<>>

\* a render result without interpolated values, and no result
EmptyResult == [strings |-> "", values |-> <<>>]
NoResult == [strings |-> "<none>", values |-> <<>>]

\* the cells of the demo: message holds a truthy value
DemoCells == [c \in Cells |-> "5"]

\* the state after defineComponent(name, options, P, factory), with render
\* result r and cell contents c at hand
InitState(P, r, c) ==
    /\ propDefs = P
    /\ cells = c
    /\ renderResult = r
    /\ resolvedResult = NoResult
    /\ members = [n \in Nodes |-> [m \in ExposeNames |-> NoMember]]
    /\ accessors = [n \in Nodes |-> {}]
    /\ injected = [n \in Nodes |-> Absent]
    /\ kind = [n \in Nodes |-> "plain"]
    /\ parent = [n \in Nodes |-> Null]
    /\ connected = [n \in Nodes |-> FALSE]
    /\ props = [n \in Nodes |-> [k \in PropKeys |-> Absent]]
    /\ callbacks = [n \in Nodes |-> [ph \in Phases |-> <<>>]]
    /\ context = [n \in Nodes |-> [k \in InjKeys |-> NoBinding]]
    /\ isMounted = [n \in Nodes |-> FALSE]
    /\ deps = [n \in Nodes |-> {}]
    /\ rendered = [n \in Nodes |-> Unrendered]
    /\ currentInstance = Null
    /\ log = <<>>

\* a function or a propDefs map as third argument of defineComponent
FnArg(s) == [isFn |-> TRUE, script |-> s, map |-> [k \in PropKeys |-> Absent]]
MapArg(P) == [isFn |-> FALSE, script |-> <<>>, map |-> P]
NoArg == MapArg([k \in PropKeys |-> Absent])

\* the scenarios that construct elements with any setup function do not fix
\* the arguments of the call
NoDefinition == [a3 |-> NoArg, a4 |-> <<>>, factory |-> <<>>]

InitWith(P, r, c) == definition = NoDefinition /\ InitState(P, r, c)

Init == InitWith(PropDefs, EmptyResult, DemoCells)

\* variant: a function as third argument leaves the demo propDefs in place
DefineComponent_KeepDefs(a3, a4) ==
    IF a3.isFn THEN [propDefs |-> PropDefs, factory |-> a3.script]
    ELSE [propDefs |-> a3.map, factory |-> a4]

\* the head of defineComponent: a function given as third argument is the
\* factory, and propDefs is then {}
DefineComponent(a3, a4) ==
    IF a3.isFn THEN [propDefs |-> [k \in PropKeys |-> Absent], factory |-> a3.script]
    ELSE [propDefs |-> a3.map, factory |-> a4]

\* an operation starts its log with its own name
Begin(n, name, a) == Emit(World, "op", n, name, a)

\* the program state after an operation that ended in world w
Commit(w) ==
    /\ props' = w.props
    /\ callbacks' = w.callbacks
    /\ context' = w.context
    /\ isMounted' = w.isMounted
    /\ deps' = w.deps
    /\ rendered' = w.rendered
    /\ members' = w.members
    /\ accessors' = w.accessors
    /\ injected' = w.injected
    /\ currentInstance' = w.cur
    /\ log' = w.log
    /\ UNCHANGED <<propDefs, definition, cells, renderResult, resolvedResult>>

IsComp(n) == kind[n] = "comp"

TotalCb(n) ==
    Len(callbacks[n]["onBeforeMount"]) + Len(callbacks[n]["onMounted"])
    + Len(callbacks[n]["onBeforeUpdate"]) + Len(callbacks[n]["onUpdated"])
    + Len(callbacks[n]["onUnmounted"])

SeqsUpTo(S, m) == UNION {[1 .. l -> S] : l \in 0 .. m}

LifeOps == {o \in SetupOps : o.op \in {"on", "throw"}}
\* in the tree scenario only the first key is ever bound
BoundKeys == {"k1"}
\* the setup functions of the tree scenario: no helper call, one provide, or
\* one inject with or without a default
DIScripts ==
    {<<>>} \cup {<<Op("provide", k, v)>> : k \in BoundKeys, v \in CtxVals}
    \cup {<<Op("inject", "k1", "undefined")>>, <<Op("inject", "k2", "'d'")>>}

\* --------------------------------------------------------------- actions
\* the platform upgrades element n: the constructor runs with the given
\* setup function, on an element that may already have a parent
Construct(n, script) ==
    /\ kind[n] = "plain"
    /\ LET w == Constructor(Begin(n, "construct", ""), n, script)
       IN  /\ Commit(w)
           /\ kind' = [kind EXCEPT ![n] = IF w.threw THEN "failed" ELSE "comp"]
    /\ UNCHANGED <<parent, connected>>

\* variant: connecting runs the before-mount callbacks as well
Connected_AlsoBeforeMount(w, n) ==
    ForEachCallback(ForEachCallback(w, n, "onBeforeMount", 1), n, "onMounted", 1)

\* the body of connectedCallback
Connected(w, n) == ForEachCallback(w, n, "onMounted", 1)

\* variant: disconnecting runs the mounted callbacks as well
Disconnected_AlsoMounted(w, n) ==
    ForEachCallback(ForEachCallback(w, n, "onUnmounted", 1), n, "onMounted", 1)

\* the body of disconnectedCallback
Disconnected(w, n) == ForEachCallback(w, n, "onUnmounted", 1)

ConnectedCallback(n) ==
    /\ IsComp(n) /\ ~connected[n]
    /\ Commit(Connected(Begin(n, "connected", ""), n))
    /\ connected' = [connected EXCEPT ![n] = TRUE]
    /\ UNCHANGED <<kind, parent>>

DisconnectedCallback(n) ==
    /\ IsComp(n) /\ connected[n]
    /\ Commit(Disconnected(Begin(n, "disconnected", ""), n))
    /\ connected' = [connected EXCEPT ![n] = FALSE]
    /\ UNCHANGED <<kind, parent>>

\* variant: a numeric string is converted when the default is a number
AttrValue_Coerced(k, v) ==
    IF propDefs[k] = "42" /\ v = "'42'" THEN "42" ELSE v

\* the value attributeChangedCallback stores for newValue v of attribute k
AttrValue(k, v) == v

AttributeChangedCallback(n, k, v) ==
    /\ IsComp(n) /\ k \in ObservedAttributes
    /\ Commit(SetProp(Emit(Begin(n, "attributeChanged", k), "attr", n, k, v),
                      n, k, AttrValue(k, v)))
    /\ UNCHANGED <<kind, parent, connected>>

\* element[k] = v through the accessor defined by #initProps
SetAccessor(n, k, v) ==
    /\ IsComp(n) /\ k \in accessors[n]
    /\ Commit(SetProp(Begin(n, "set", k), n, k, v))
    /\ UNCHANGED <<kind, parent, connected>>

\* element[k] read through the accessor defined by #initProps
GetAccessor(n, k) ==
    /\ IsComp(n) /\ k \in accessors[n]
    /\ LET w == Begin(n, "get", k)
       IN  Commit(Emit(w, "read", n, k, GetProp(w, n, k)))
    /\ UNCHANGED <<kind, parent, connected>>

\* an event handler that writes two fields in one synchronous task
SyncWrites(n, k1, v1, k2, v2) ==
    /\ IsComp(n)
    /\ Commit(SetProp(SetProp(Begin(n, "task", ""), n, k1, v1), n, k2, v2))
    /\ UNCHANGED <<kind, parent, connected>>

\* element.registerLifecycleCallback(phase, cb) called on the instance
Register(n, phase, cb) ==
    /\ IsComp(n) /\ TotalCb(n) < MaxCb
    /\ Commit(RegisterLifecycleCallback(Begin(n, "register", phase), n, phase, cb))
    /\ UNCHANGED <<kind, parent, connected>>

\* element.provide(k, v)
Provide(n, k, v) ==
    /\ IsComp(n)
    /\ Commit(ProvideM(Emit(Begin(n, "provide", k), "bind", n, k, v), n, k, v))
    /\ UNCHANGED <<kind, parent, connected>>

\* element.inject(k, d)
Inject(n, k, d) ==
    /\ IsComp(n)
    /\ LET r == InjectM(Begin(n, "inject", k), n, k, d)
       IN  Commit(Emit(r.w, "return", n, d, r.val))
    /\ UNCHANGED <<kind, parent, connected>>

\* the helper calls made while no setup function is executing
HelperOps ==
    {Op("on", ph, "log") : ph \in Phases}
    \cup {Op("provide", "k1", "'x'"), Op("inject", "k1", "'d'"),
          Op("inject", "k2", "undefined")}
    \cup {Op("expose", "open", v) : v \in ExposeVals}

\* the setup functions of the helper scenario
HelperScripts ==
    {<<>>, <<Op("throw", "", "")>>, <<Op("on", "onMounted", "log")>>,
     <<Op("expose", "open", "f1")>>,
     <<Op("provide", "k1", "0"), Op("throw", "", "")>>}

\* module-level code calls free helper o after all setup functions returned
FreeHelper(o) ==
    /\ (o.op = "on" /\ currentInstance # Null) => TotalCb(currentInstance) < MaxCb
    /\ Commit(RunOp(Begin(Null, "helper", o.op), o))
    /\ UNCHANGED <<kind, parent, connected>>

RECURSIVE IsAncestor(_, _)
\* whether a is x or lies on the parent chain of x
IsAncestor(a, x) ==
    IF x = Null THEN FALSE ELSE IF x = a THEN TRUE ELSE IsAncestor(a, parent[x])

\* p.appendChild(n); elements are numbered so that a parent comes first
AppendChild(p, n) ==
    /\ p < n
    /\ parent[n] = Null /\ ~IsAncestor(n, p)
    /\ parent' = [parent EXCEPT ![n] = p]
    /\ log' = <<Ev("op", n, "appendChild", "")>>
    /\ UNCHANGED <<kind, connected, props, callbacks, context, isMounted,
                   deps, rendered, currentInstance, propDefs, definition,
                   injected, cells,
                   renderResult, resolvedResult, members, accessors>>

\* n.remove()
RemoveChild(n) ==
    /\ parent[n] # Null
    /\ parent' = [parent EXCEPT ![n] = Null]
    /\ log' = <<Ev("op", n, "remove", "")>>
    /\ UNCHANGED <<kind, connected, props, callbacks, context, isMounted,
                   deps, rendered, currentInstance, propDefs, definition,
                   injected, cells,
                   renderResult, resolvedResult, members, accessors>>

\* ---------------------------------------------------------- specifications
\* lifecycle and rendering of instances
Next ==
    \/ \E n \in LifeNodes, s \in SeqsUpTo(LifeOps, MaxSetupOps) : Construct(n, s)
    \/ \E n \in LifeNodes : ConnectedCallback(n)
    \/ \E n \in LifeNodes : DisconnectedCallback(n)
    \/ \E n \in LifeNodes, k \in PropKeys, v \in PropVals : AttributeChangedCallback(n, k, v)
    \/ \E n \in LifeNodes, k \in PropKeys, v \in PropVals : SetAccessor(n, k, v)
    \/ \E n \in LifeNodes, k2 \in PropKeys, v1, v2 \in PropVals :
          SyncWrites(n, "title", v1, k2, v2)
    \/ \E n \in LifeNodes, ph \in Phases, cb \in Cbs : Register(n, ph, cb)
    \/ \E n \in LifeNodes : Provide(n, "k1", "'x'")

Spec == Init /\ [][Next]_vars

\* provide and inject over a tree of elements
NextDI ==
    \/ \E n \in Nodes, s \in DIScripts : Construct(n, s)
    \/ \E p, n \in Nodes : AppendChild(p, n)
    \/ \E n \in Nodes : RemoveChild(n)
    \/ \E n \in Nodes, k \in BoundKeys, v \in CtxVals : Provide(n, k, v)
    \/ \E n \in Nodes, k \in InjKeys, d \in Defaults : Inject(n, k, d)

SpecDI == Init /\ [][NextDI]_vars

\* the setup functions of the property scenario
PropScripts == {<<>>, <<Op("on", "onUpdated", "set")>>}

\* the property scenario: a component defined with any of the propDefs maps is
\* constructed, then written and read through its accessors, its attributes
\* and its props object
InitProps_Any == \E P \in DefMaps : InitWith(P, EmptyResult, DemoCells)

NextProps ==
    \/ \E n \in LifeNodes, s \in PropScripts : Construct(n, s)
    \/ \E n \in LifeNodes, k \in PropKeys, v \in AttrVals :
            AttributeChangedCallback(n, k, v)
    \/ \E n \in LifeNodes, k \in PropKeys, v \in PropVals : SetAccessor(n, k, v)
    \/ \E n \in LifeNodes, k \in PropKeys : GetAccessor(n, k)
    \/ \E n \in LifeNodes, k2 \in PropKeys, v1, v2 \in PropVals :
            SyncWrites(n, "title", v1, k2, v2)

SpecProps == InitProps_Any /\ [][NextProps]_vars

\* the render results handed to #resolveRefs in the resolver scenario
Items == {Plain("'a'"), Plain("0"), RefTo(1), RefTo(2)}
RenderResults ==
    [strings : {"t1", "t2"}, values : SeqsUpTo(Items, MaxValues)]

\* this.#resolveRefs(renderResult)
ResolveCall ==
    /\ LET r == ResolveRefs(renderResult, cells)
       IN  /\ renderResult' = r.input
           /\ cells' = r.cells
           /\ resolvedResult' = r.output
    /\ log' = <<Ev("op", Null, "resolveRefs", "")>>
    /\ UNCHANGED <<kind, parent, connected, props, callbacks, context,
                   isMounted, deps, rendered, propDefs, definition, injected,
                   members, accessors,
                   currentInstance>>

\* cell.value = v
SetCell(c, v) ==
    /\ cells' = [cells EXCEPT ![c] = v]
    /\ log' = <<Ev("op", Null, "setCell", v)>>
    /\ UNCHANGED <<kind, parent, connected, props, callbacks, context,
                   isMounted, deps, rendered, propDefs, definition, injected,
                   members, accessors,
                   currentInstance, renderResult, resolvedResult>>

\* the resolver scenario: any render result is resolved while the cells hold
\* any values, and the cells are written between the calls
InitResolve ==
    \E r \in RenderResults, c \in [Cells -> CellVals] : InitWith(PropDefs, r, c)

NextResolve ==
    \/ ResolveCall
    \/ \E c \in Cells, v \in CellVals : SetCell(c, v)

SpecResolve == InitResolve /\ [][NextResolve]_vars

\* the values an input element holds when its input event fires, and the
\* arguments update() is called with: a cell, or a value that is no cell
InputVals == {"'a'", "'b'", "''"}
MaybeRefs == {RefTo(c) : c \in Cells} \cup {Plain("'a'"), Plain("0")}

\* variant: an empty input value is not written
UpdateHandler_SkipEmpty(w, x, v, store) ==
    IF IsRef(x) /\ ~Falsy(v)
    THEN [w |-> Emit(w, "assign", x.ref, "", v), cells |-> [store EXCEPT ![x.ref] = v]]
    ELSE [w |-> Emit(w, "warn", Null, "update", ""), cells |-> store]

\* the handler update(x) returns, applied to an input event whose target
\* holds v, while the cells hold `store`
UpdateHandler(w, x, v, store) ==
    IF IsRef(x)
    THEN [w |-> Emit(w, "assign", x.ref, "", v), cells |-> [store EXCEPT ![x.ref] = v]]
    ELSE [w |-> Emit(w, "warn", Null, "update", ""), cells |-> store]

\* an input event reaches the handler update(x)
InputEvent(x, v) ==
    /\ LET r == UpdateHandler(Emit(Begin(Null, "update", ""), "input", x.ref, x.value, v),
                              x, v, cells)
       IN  /\ cells' = r.cells
           /\ log' = r.w.log
    /\ UNCHANGED <<kind, parent, connected, props, callbacks, context,
                   isMounted, deps, rendered, propDefs, definition, injected,
                   members, accessors,
                   currentInstance, renderResult, resolvedResult>>

\* the binding scenario: input events reach handlers made by update() for
\* cells and for values that are no cells
InitUpdate == \E c \in [Cells -> CellVals] : InitWith(PropDefs, EmptyResult, c)

NextUpdate ==
    \/ \E x \in MaybeRefs, v \in InputVals : InputEvent(x, v)
    \/ \E c \in Cells, v \in CellVals : SetCell(c, v)

SpecUpdate == InitUpdate /\ [][NextUpdate]_vars

\* the elements of the member scenario
ExposeNodes == {1, 2}

\* the setup functions of the member scenario: a member exposed once, twice,
\* as writable, and under the name of a property
ExposeScripts ==
    {<<>>, <<Op("expose", "open", "f1")>>, <<Op("exposeW", "open", "f1")>>,
     <<Op("expose", "open", "f1"), Op("expose", "open", "f1")>>,
     <<Op("expose", "open", "f1"), Op("expose", "open", "f2")>>,
     <<Op("exposeW", "open", "f1"), Op("expose", "open", "f2")>>,
     <<Op("expose", "title", "f1")>>}

\* element[name] = v on an exposed member, from a module (strict mode): a
\* read-only member rejects the assignment with a TypeError
SetMember(n, name, v) ==
    /\ IsComp(n) /\ members[n][name] # NoMember
    /\ LET w == Begin(n, "setMember", name)
       IN  IF members[n][name].writable
           THEN Commit([Emit(w, "assign", n, name, v)
                           EXCEPT !.members[n][name].value = v])
           ELSE Commit(Emit(w, "typeError", n, name, v))
    /\ UNCHANGED <<kind, parent, connected>>

\* the member scenario: two elements are constructed with setup functions
\* that expose members, and the members are assigned afterwards
NextExpose ==
    \/ \E n \in ExposeNodes, s \in ExposeScripts : Construct(n, s)
    \/ \E n \in ExposeNodes, m \in ExposeNames, v \in ExposeVals : SetMember(n, m, v)

SpecExpose == Init /\ [][NextExpose]_vars

\* the setup functions and the calls of the definition scenario: the
\* three-argument form, and the four-argument form with {} and with propDefs
DefScripts ==
    {<<>>, <<Op("on", "onMounted", "log")>>, <<Op("on", "onMounted", "set")>>}
DefineCalls ==
    {[a3 |-> FnArg(s), a4 |-> <<>>] : s \in DefScripts}
    \cup {[a3 |-> MapArg(P), a4 |-> s] :
             P \in {[k \in PropKeys |-> Absent], PropDefs}, s \in DefScripts}

\* the elements of the definition scenario
DefNodes == {1, 2}

\* the definition scenario: defineComponent is called in one of its forms,
\* then elements of the class are constructed and used
InitDefine ==
    \E call \in DefineCalls :
        LET d == DefineComponent(call.a3, call.a4)
        IN  /\ definition = [a3 |-> call.a3, a4 |-> call.a4, factory |-> d.factory]
            /\ InitState(d.propDefs, EmptyResult, DemoCells)

NextDefine ==
    \/ \E n \in DefNodes : Construct(n, definition.factory)
    \/ \E n \in DefNodes : ConnectedCallback(n)
    \/ \E n \in DefNodes : DisconnectedCallback(n)
    \/ \E n \in DefNodes, k \in PropKeys : AttributeChangedCallback(n, k, "'42'")
    \/ \E n \in DefNodes, k \in PropKeys : SetAccessor(n, k, "'123'")

SpecDefine == InitDefine /\ [][NextDefine]_vars

\* the setup functions of the nesting scenario: callbacks are registered
\* before and after another element is created
NestingScripts ==
    {<<Op("on", ph, "log"), Op("create", "onMounted", "set")>> : ph \in Phases}
    \cup {<<Op("create", "onMounted", "set"), Op("on", ph, "log")>> : ph \in Phases}
    \cup {<<Op("create", "onUpdated", "log"), Op("provide", "k1", "'x'")>>}

\* element n is constructed and its setup function creates NestedNode
ConstructNesting(n, script) ==
    /\ n # NestedNode
    /\ kind[n] = "plain" /\ kind[NestedNode] = "plain"
    /\ LET w == Constructor(Begin(n, "construct", ""), n, script)
       IN  /\ Commit(w)
           /\ kind' = [kind EXCEPT ![n] = IF w.threw THEN "failed" ELSE "comp",
                                   ![NestedNode] = "comp"]
    /\ UNCHANGED <<parent, connected>>

\* the nesting scenario
NextNesting ==
    \/ \E s \in NestingScripts : ConstructNesting(1, s)
    \/ \E n \in {1, NestedNode} : ConnectedCallback(n)
    \/ \E n \in {1, NestedNode} : DisconnectedCallback(n)
    \/ \E n \in {1, NestedNode}, v \in PropVals : SetAccessor(n, "title", v)

SpecNesting == Init /\ [][NextNesting]_vars

\* the elements of the ownership scenario: two instances of one definition
FrameNodes == {1, 2}

\* the ownership scenario: both elements are constructed, written through
\* accessors and attributes, and given bindings and callbacks
NextFrame ==
    \/ \E n \in FrameNodes, s \in PropScripts : Construct(n, s)
    \/ \E n \in FrameNodes, v \in PropVals : SetAccessor(n, "title", v)
    \/ \E n \in FrameNodes : AttributeChangedCallback(n, "title", "'42'")
    \/ \E n \in FrameNodes : Provide(n, "k1", "'x'")
    \/ \E n \in FrameNodes : Register(n, "onUpdated", "set")

SpecFrame == Init /\ [][NextFrame]_vars

\* the elements of the late-binding scenario: a parent and its child
LateNodes == {1, 2}

\* the setup functions of the late-binding scenario: nothing, a provide, an
\* inject through the free helper or the instance, with and without a
\* default, and an inject of a key the setup function has just bound
LateScripts ==
    {<<>>, <<Op("provide", "k1", "'x'")>>,
     <<Op("inject", "k1", "undefined")>>, <<Op("injectM", "k1", "'d'")>>,
     <<Op("provide", "k1", "0"), Op("injectM", "k1", "'d'")>>}

\* the late-binding scenario: elements are constructed attached or detached,
\* before or after their parent, and attached and given bindings afterwards
NextLate ==
    \/ \E n \in LateNodes, s \in LateScripts : Construct(n, s)
    \/ \E p, n \in LateNodes : AppendChild(p, n)
    \/ \E n \in LateNodes : RemoveChild(n)
    \/ \E n \in LateNodes : Provide(n, "k1", "'x'")
    \/ \E n \in LateNodes, d \in {"undefined", "'d'"} : Inject(n, "k1", d)

SpecLate == Init /\ [][NextLate]_vars

\* the helper scenario: elements are constructed and free helpers are called
\* between the operations
NextHelper ==
    \/ \E n \in LifeNodes, s \in HelperScripts : Construct(n, s)
    \/ \E o \in HelperOps : FreeHelper(o)

SpecHelper == Init /\ [][NextHelper]_vars

\* ------------------------------------------------------------- properties
UpdatePhases == {"onBeforeUpdate", "onUpdated"}

\* the operation the log belongs to, and the element it was applied to
LogOp == IF log = <<>> THEN "" ELSE log[1].a
LogNode == IF log = <<>> THEN Null ELSE log[1].n
Idx == 1 .. Len(log)

IsRender(j, mode) == log[j].e = "render" /\ log[j].a = mode
IsCb(j, phase) == log[j].e = "cb" /\ log[j].a = phase

\* the log without the field writes
NoWrite(ev) == ev.e # "write"
Steps == SelectSeq(log, NoWrite)

\* the callbacks of a phase as log events of element n
CbEvents(n, phase) ==
    [i \in 1 .. Len(callbacks[n][phase]) |-> Ev("cb", n, phase, callbacks[n][phase][i])]

\* C1: the first render pass runs no before-update and no updated callback;
\* every later render pass is immediately preceded by all registered
\* before-update callbacks and immediately followed by all registered updated
\* callbacks, in registration order.
C1_UpdateHooksBracketLaterPasses ==
    \A j \in 1 .. Len(Steps) :
        Steps[j].e = "render" =>
            LET n == Steps[j].n
                B == CbEvents(n, "onBeforeUpdate")
                U == CbEvents(n, "onUpdated")
            IN  IF Steps[j].a = "first"
                THEN \A i \in 1 .. Len(Steps) :
                        ~(Steps[i].e = "cb" /\ Steps[i].a \in UpdatePhases)
                ELSE /\ j - Len(B) >= 1
                     /\ SubSeq(Steps, j - Len(B), j - 1) = B
                     /\ j + Len(U) <= Len(Steps)
                     /\ SubSeq(Steps, j + 1, j + Len(U)) = U
                     /\ ~(Steps[j - Len(B) - 1].e = "cb"
                           /\ Steps[j - Len(B) - 1].a = "onBeforeUpdate")
                     /\ (j + Len(U) < Len(Steps) =>
                            ~(Steps[j + Len(U) + 1].e = "cb"
                              /\ Steps[j + Len(U) + 1].a = "onUpdated"))

C1_Witness ==
    /\ \E j \in Idx : IsRender(j, "update")
    /\ \E n \in LifeNodes :
          Len(callbacks[n]["onBeforeUpdate"]) >= 1 /\ Len(callbacks[n]["onUpdated"]) >= 1

\* the position of the only event of kind e in the log, 0 when there is not
\* exactly one
Pos(e) ==
    LET S == {j \in Idx : log[j].e = e}
    IN  IF Cardinality(S) = 1 THEN CHOOSE j \in S : TRUE ELSE 0

\* C2: a construction that completes performs, in this order and each step
\* once: property initialization (one write per key of propDefs), ambient
\* pointer set, setup call, ambient pointer cleared, every before-mount
\* callback, establishment of the render effect, the first render pass.
C2_ConstructionOrder ==
    (LogOp = "construct" /\ kind[LogNode] = "comp") =>
        LET n == LogNode
            M == {j \in Idx : IsCb(j, "onBeforeMount")}
        IN  /\ Pos("initProps") = 2
            /\ \A j \in 3 .. 2 + Cardinality(DefKeys) : log[j].e = "write"
            /\ Pos("setCurrent") = 3 + Cardinality(DefKeys)
            /\ Pos("setup") = Pos("setCurrent") + 1
            /\ Pos("clearCurrent") > Pos("setup")
            /\ Cardinality(M) = Len(callbacks[n]["onBeforeMount"])
            /\ \A j \in M : Pos("clearCurrent") < j /\ j < Pos("effect")
            /\ \A j \in Idx : log[j].e = "cb" => j \in M
            /\ Pos("effect") > Pos("clearCurrent")
            /\ Pos("render") = Pos("effect") + 1
            /\ Pos("render") = Len(log)
            /\ IsRender(Len(log), "first")
            /\ currentInstance = Null

C2_Witness ==
    /\ LogOp = "construct" /\ kind[LogNode] = "comp"
    /\ Len(callbacks[LogNode]["onBeforeMount"]) >= 2

\* C3: whenever no setup function is executing (between operations), the
\* ambient current-instance pointer is null, however the setup call ended.
C3_PointerNullOutsideSetup == currentInstance = Null

\* a write that reaches the subscribed render effect from outside a render
\* pass: it changes a field the render function read, after construction, and
\* is not made by an update callback of the pass in progress
InPassWrite(j) ==
    /\ j > 1 /\ log[j].e = "write"
    /\ log[j - 1].e = "cb" /\ log[j - 1].b = "set" /\ log[j - 1].a \in UpdatePhases

Effective(j) ==
    /\ log[j].e = "write" /\ log[j].b = "changed" /\ log[j].a \in Reads
    /\ LogOp # "construct"
    /\ ~InPassWrite(j)

EffectiveWrites == {j \in Idx : Effective(j)}
UpdateRenders == {j \in Idx : IsRender(j, "update")}

\* C4 as stated: the writes of one synchronous task that change a rendered
\* field collapse into exactly one re-run of the render effect.
C4_WritesCollapse ==
    EffectiveWrites # {} => Cardinality(UpdateRenders) = 1

\* C4 as amended: every effective write is followed, before the next effective
\* write of the same task, by one re-run of the render effect; a task with N
\* effective writes runs N render passes.
C4_OneRerunPerWrite ==
    /\ Cardinality(UpdateRenders) = Cardinality(EffectiveWrites)
    /\ \A j \in EffectiveWrites :
          \E r \in UpdateRenders :
              /\ r > j
              /\ \A m \in (j + 1) .. r : m \notin EffectiveWrites

C4_Witness ==
    LogOp = "task" /\ Cardinality(EffectiveWrites) = 2 /\ Cardinality(UpdateRenders) = 2

\* C5: a render pass after the first happens only right after a write that
\* changed a field read in the previous pass: between that write and the pass
\* lie only the before-update callbacks of the pass.  Writes of other fields,
\* writes of the same value, connects, disconnects, provides and lifecycle
\* registrations start none.
C5_RenderOnlyOnReadChange ==
    \A r \in UpdateRenders :
        \E j \in EffectiveWrites :
            /\ j < r
            /\ \A m \in (j + 1) .. (r - 1) :
                  \/ IsCb(m, "onBeforeUpdate")
                  \/ (InPassWrite(m) /\ IsCb(m - 1, "onBeforeUpdate"))

C5_Witness ==
    /\ LogOp \in {"set", "attributeChanged"}
    /\ UpdateRenders # {}
    /\ \E n \in LifeNodes : Len(callbacks[n]["onBeforeUpdate"]) >= 1

\* the component instances on the parent chain of x, nearest first
RECURSIVE CompAncestors(_)
CompAncestors(x) ==
    IF parent[x] = Null THEN <<>>
    ELSE (IF kind[parent[x]] = "comp" THEN <<parent[x]>> ELSE <<>>)
         \o CompAncestors(parent[x])

Bound(n, k) == context[n][k] # NoBinding

\* the nearest component ancestor of x with a binding for k, or Null
NearestProvider(x, k) ==
    LET A == CompAncestors(x)
        S == {i \in 1 .. Len(A) : Bound(A[i], k)}
    IN  IF S = {} THEN Null ELSE A[CHOOSE i \in S : \A m \in S : i <= m]

\* the log is that of a call X.inject(k, d) that returned r
InjectCall == LogOp = "inject"
InjKey == log[1].b
InjDefault == log[Len(log)].a
InjResult == log[Len(log)].b
Warned == \E j \in Idx : log[j].e = "warn"

\* C6: when X has no local binding for k and the nearest component ancestor
\* with a binding binds k to v, X.inject(k) returns v, falsy values included.
C6_InjectReturnsAncestorBinding ==
    (InjectCall /\ ~Bound(LogNode, InjKey) /\ NearestProvider(LogNode, InjKey) # Null)
        => InjResult = context[NearestProvider(LogNode, InjKey)][InjKey]

\* C7: when neither X nor a component ancestor binds k, X.inject(k, d) returns
\* the supplied default d, falsy defaults included.
C7_InjectReturnsDefault ==
    (InjectCall /\ InjDefault # "undefined" /\ ~Bound(LogNode, InjKey)
         /\ NearestProvider(LogNode, InjKey) = Null)
        => InjResult = InjDefault

\* C8: X.inject(k, d) emits the "key not found" diagnostic exactly when no
\* binding exists on X or a component ancestor and no default was supplied,
\* and then returns null.
C8_DiagnosticIffMiss ==
    InjectCall =>
        LET miss == /\ ~Bound(LogNode, InjKey)
                    /\ NearestProvider(LogNode, InjKey) = Null
                    /\ InjDefault = "undefined"
        IN  /\ Warned <=> miss
            /\ miss => InjResult = "null"

\* C9: X.provide(k, v) binds k to v on X whatever was bound before, and
\* X.inject(k) returns X's own binding, falsy values included, without asking
\* an ancestor.
C9_InjectReturnsOwnBinding ==
    /\ LogOp = "provide" => context[LogNode][log[2].a] = log[2].b
    /\ (InjectCall /\ Bound(LogNode, InjKey)) =>
          /\ InjResult = context[LogNode][InjKey]
          /\ \A j \in Idx : log[j].e # "consult"

C9_Witness ==
    /\ InjectCall /\ context[LogNode][InjKey] = "0"
    /\ NearestProvider(LogNode, InjKey) # Null
    /\ context[NearestProvider(LogNode, InjKey)][InjKey] = "'x'"

RECURSIVE Ancestors(_)
Ancestors(x) == IF parent[x] = Null THEN {} ELSE {parent[x]} \cup Ancestors(parent[x])

\* C10: X.inject(k, d) returns X's own binding, or else a binding of a
\* component ancestor of X, the default or null; it asks only ancestors, and
\* only when X has no binding of its own.
C10_InjectLooksOnlyUpward ==
    InjectCall =>
        LET x == LogNode
            up == {a \in Ancestors(x) : kind[a] = "comp" /\ Bound(a, InjKey)}
        IN  /\ \A j \in Idx : log[j].e = "consult" =>
                  log[j].n \in Ancestors(x) /\ ~Bound(x, InjKey)
            /\ IF Bound(x, InjKey) THEN InjResult = context[x][InjKey]
               ELSE InjResult \in {context[a][InjKey] : a \in up}
                                  \cup {"null"} \cup ({InjDefault} \ {"undefined"})

C10_Witness ==
    /\ InjectCall /\ ~Bound(LogNode, InjKey)
    /\ \E s \in Nodes \ (Ancestors(LogNode) \cup {LogNode}) :
          /\ kind[s] = "comp" /\ context[s][InjKey] = "'x'"
          /\ parent[s] = parent[LogNode] /\ parent[s] # Null
    /\ InjResult # "'x'"

\* ---------------------------------------------------------------- C11
\* the free inject calls made by the setup function of the last construction:
\* the position of the call in the log
FreeInjectCalls == {i \in DOMAIN log : log[i].e = "injectF"}

\* the value the free call at position i returned
FreeInjectResult(i) ==
    LET j == CHOOSE j \in (i + 1) .. Len(log) :
                 /\ log[j].e = "return"
                 /\ \A m \in (i + 1) .. (j - 1) : log[m].e # "return"
    IN  log[j].b

\* C11: during the setup of X the free inject(k, d) returns what X.inject(k, d)
\* returns, for every key and default (the setup functions of this scenario
\* make one call, so the bindings X.inject sees are those of the state reached)
C11_FreeInjectEqualsMethod ==
    LogOp = "construct" =>
        \A i \in FreeInjectCalls :
            FreeInjectResult(i) = InjectM(World, log[i].n, log[i].a, log[i].b).val

\* ---------------------------------------------------------------- C12
\* a step in which a free helper was called with no setup function executing
HelperStep == log' # <<>> /\ log'[1].a = "helper"

\* C12: a free helper called while no setup function is executing reports a
\* diagnostic and leaves the lifecycle tables, the dependency tables and the
\* members of every element unchanged
C12_HelperOutsideSetupIsReportedNoOp ==
    [][HelperStep =>
         /\ \E i \in DOMAIN log' : log'[i].e \in {"error", "warn"}
         /\ callbacks' = callbacks
         /\ context' = context
         /\ members' = members]_vars

\* ---------------------------------------------------------------- C13
\* the keys of the props container of element n
FieldKeys(n) == {k \in PropKeys : props[n][k] # Absent}

\* the last operation constructed element n and neither its setup function
\* nor a callback wrote a field
JustConstructed(n) ==
    /\ LogOp = "construct" /\ LogNode = n /\ IsComp(n)
    /\ \A i \in DOMAIN log : log[i].e = "write" => i < Pos("setCurrent")

\* C13: for every propDefs map, right after construction the keys of the
\* props container and of the accessors are the keys of the map, and each
\* field holds its default
C13_FieldsAfterConstruction ==
    \A n \in Nodes :
        JustConstructed(n) =>
            /\ FieldKeys(n) = DefKeys
            /\ accessors[n] = DefKeys
            /\ \A k \in DefKeys : props[n][k] = propDefs[k]

\* a component with one property was constructed
C13_Witness ==
    \E n \in Nodes : JustConstructed(n) /\ Cardinality(DefKeys) = 1

\* ---------------------------------------------------------------- C14
\* C14: whatever was written through accessors, attributes and the props
\* object, reading accessor k yields the current value of field k, and the
\* observed attributes and the accessors are the keys of the map
C14_AccessorReadsField ==
    /\ ObservedAttributes = {k \in PropKeys : propDefs[k] # Absent}
    /\ \A n \in Nodes : IsComp(n) => accessors[n] = ObservedAttributes
    /\ LogOp = "get" =>
           /\ log[2].e = "read"
           /\ log[2].b = props[log[2].n][log[2].a]

\* an accessor was read after its field was given a value other than the
\* default
C14_Witness ==
    /\ LogOp = "get"
    /\ props[log[2].n][log[2].a] # propDefs[log[2].a]

\* ---------------------------------------------------------------- C15
\* a step made by attributeChangedCallback in which no callback wrote a field
AttrStep ==
    /\ log' # <<>> /\ log'[1].a = "attributeChanged"
    /\ \A i \in DOMAIN log' : log'[i].e = "cb" => log'[i].b # "set"

\* C15: attributeChangedCallback(k, v) stores exactly v, string or null, in
\* field k and leaves every other field and table of every element unchanged
C15_AttributeStoredAsDelivered ==
    [][AttrStep =>
         LET e == log'[2]
         IN  /\ e.e = "attr"
             /\ props'[e.n][e.a] = e.b
             /\ \A m \in Nodes, k \in PropKeys :
                    <<m, k>> # <<e.n, e.a>> => props'[m][k] = props[m][k]
             /\ callbacks' = callbacks
             /\ context' = context
             /\ members' = members
             /\ accessors' = accessors]_vars

\* the attribute of a property whose default is a number was set to a
\* numeric string
C15_Witness ==
    /\ LogOp = "attributeChanged"
    /\ propDefs[log[2].a] = "42"
    /\ log[2].b = "'42'"
    /\ props[log[2].n][log[2].a] = "'42'"

\* ---------------------------------------------------------------- C16
\* the callbacks of element n run for a phase in log l, and the callbacks
\* registered for it in l, in log order
CbSeq(l, n, phase) ==
    LET Test(e) == e.e = "cb" /\ e.n = n /\ e.a = phase
        S == SelectSeq(l, Test)
    IN  [i \in 1 .. Len(S) |-> S[i].b]

RegSeq(l, n, phase) ==
    LET Test(e) == e.e = "reg" /\ e.n = n /\ e.a = phase
        S == SelectSeq(l, Test)
    IN  [i \in 1 .. Len(S) |-> S[i].b]

\* C16: each before-mount callback registered during setup runs exactly once,
\* in the construction, after the setup function returned, before the first
\* render pass and before any mounted callback; no later operation runs a
\* before-mount callback
C16_BeforeMountOnceBeforeFirstRender ==
    /\ (LogOp = "construct" /\ IsComp(LogNode)) =>
           /\ CbSeq(log, LogNode, "onBeforeMount") = RegSeq(log, LogNode, "onBeforeMount")
           /\ Pos("clearCurrent") > 0
           /\ \A i \in Idx :
                  IsCb(i, "onBeforeMount") =>
                      /\ i > Pos("clearCurrent")
                      /\ \A j \in Idx :
                             (log[j].e = "render" \/ IsCb(j, "onMounted")) => i < j
    /\ LogOp # "construct" => \A i \in Idx : ~IsCb(i, "onBeforeMount")

\* a construction ran a before-mount callback, and an element with a
\* before-mount callback was connected later
C16_Witness ==
    \/ LogOp = "construct" /\ \E i \in Idx : IsCb(i, "onBeforeMount")
    \/ /\ LogOp = "connected"
       /\ callbacks[LogNode]["onBeforeMount"] # <<>>
       /\ callbacks[LogNode]["onMounted"] # <<>>

\* ---------------------------------------------------------------- C17
\* the mounted and unmounted callbacks run in the log
MountEvents ==
    LET Test(e) == e.e = "cb" /\ e.a \in {"onMounted", "onUnmounted"}
    IN  SelectSeq(log, Test)

\* C17: a connect runs every mounted callback once and no unmounted callback,
\* a disconnect runs every unmounted callback once and no mounted callback,
\* and no other operation runs either
C17_MountedPerConnect ==
    /\ LogOp = "connected" => MountEvents = CbEvents(LogNode, "onMounted")
    /\ LogOp = "disconnected" => MountEvents = CbEvents(LogNode, "onUnmounted")
    /\ LogOp \notin {"connected", "disconnected"} => MountEvents = <<>>

\* an element with both mounted and unmounted callbacks was disconnected
C17_Witness ==
    /\ LogOp = "disconnected"
    /\ callbacks[LogNode]["onMounted"] # <<>>
    /\ callbacks[LogNode]["onUnmounted"] # <<>>

\* ---------------------------------------------------------------- C18
\* whether sequence s is sequence t repeated some number of times
IsRepetition(s, t) ==
    IF t = <<>> THEN s = <<>>
    ELSE /\ Len(s) % Len(t) = 0
         /\ \A i \in 1 .. Len(s) : s[i] = t[((i - 1) % Len(t)) + 1]

\* C18: every operation leaves each lifecycle list as it was, extended by the
\* callbacks it registered in registration order; the callbacks it runs for a
\* phase are the whole list in list order, once per firing of the phase, and
\* they run on the element the operation was applied to
C18_RegistrationOrder ==
    [][/\ \A n \in Nodes, ph \in Phases :
              /\ callbacks'[n][ph] = callbacks[n][ph] \o RegSeq(log', n, ph)
              /\ IsRepetition(CbSeq(log', n, ph), callbacks'[n][ph])
       /\ \A i \in DOMAIN log' : log'[i].e = "cb" => log'[i].n = log'[1].n]_vars

\* a phase with two different callbacks fired
C18_Witness ==
    \E ph \in Phases :
        /\ LogNode # Null
        /\ Len(callbacks[LogNode][ph]) = 2
        /\ callbacks[LogNode][ph][1] # callbacks[LogNode][ph][2]
        /\ Len(CbSeq(log, LogNode, ph)) >= 2

\* ---------------------------------------------------------------- C19
\* C19: the resolved result has as many values as the render result; position
\* i holds the value the cell holds when the value is a reference cell, and
\* the value itself otherwise; every other member is carried over
C19_ResolvedValues ==
    LogOp = "resolveRefs" =>
        /\ DOMAIN resolvedResult = DOMAIN renderResult
        /\ \A f \in DOMAIN renderResult \ {"values"} :
               resolvedResult[f] = renderResult[f]
        /\ Len(resolvedResult.values) = Len(renderResult.values)
        /\ \A i \in 1 .. Len(renderResult.values) :
               LET x == renderResult.values[i]
               IN  IF x.ref \in Cells
                   THEN resolvedResult.values[i] = [ref |-> 0, value |-> cells[x.ref]]
                   ELSE resolvedResult.values[i] = x

\* a result with a plain value and a cell that holds a falsy value was resolved
C19_Witness ==
    /\ LogOp = "resolveRefs"
    /\ Len(renderResult.values) = 2
    /\ \E i, j \in 1 .. 2 :
           /\ renderResult.values[i].ref = 0
           /\ renderResult.values[j].ref \in Cells
           /\ cells[renderResult.values[j].ref] = "0"

\* ---------------------------------------------------------------- C20
\* C20: a call of #resolveRefs leaves its argument, the values list of the
\* argument and every reference cell as they were
C20_ResolveDoesNotMutate ==
    [][(log' # <<>> /\ log'[1].a = "resolveRefs") =>
           /\ renderResult' = renderResult
           /\ cells' = cells]_vars

\* a result that contains a reference cell was resolved
C20_Witness ==
    /\ LogOp = "resolveRefs"
    /\ \E i \in 1 .. Len(renderResult.values) : renderResult.values[i].ref \in Cells
    /\ resolvedResult # renderResult

\* ---------------------------------------------------------------- C21
\* the last operation was a construction that completed, of a component
\* defined with style text
StyledConstruction == LogOp = "construct" /\ IsComp(LogNode) /\ Styles

\* C21 as stated: the style element is injected after the render effect was
\* established and produced the first render
C21_StylesAfterFirstRender ==
    StyledConstruction =>
        /\ Pos("styles") > Pos("effect")
        /\ Pos("styles") > Pos("render")

\* C21 as the constructor does it: the style element is injected once, after
\* every before-mount callback and before the render effect is established,
\* so the first render pass finds it in the root
C21_StylesBeforeEffect ==
    StyledConstruction =>
        /\ Pos("styles") > 0
        /\ \A j \in Idx : IsCb(j, "onBeforeMount") => j < Pos("styles")
        /\ Pos("effect") = Pos("styles") + 1
        /\ Pos("render") = Pos("effect") + 1

\* a styled component with a before-mount callback was constructed
C21_Witness ==
    /\ StyledConstruction
    /\ \E j \in Idx : IsCb(j, "onBeforeMount")
    /\ Pos("styles") > 0

\* ---------------------------------------------------------------- C22
\* C22: the handler made by update(x), applied to an input event, stores the
\* value of the event target in x when x is a reference cell and reports
\* nothing; when x is no cell it reports a diagnostic and writes no cell
C22_UpdateWritesCellOrWarns ==
    [][(log' # <<>> /\ log'[1].a = "update") =>
           LET e == log'[2]
               warned == \E i \in DOMAIN log' : log'[i].e = "warn"
           IN  /\ e.e = "input"
               /\ IF e.n \in Cells
                  THEN cells' = [cells EXCEPT ![e.n] = e.b] /\ ~warned
                  ELSE cells' = cells /\ warned]_vars

\* an empty input value was written into a cell that held another value
C22_Witness ==
    /\ LogOp = "update"
    /\ log[2].n \in Cells
    /\ log[2].b = "''"
    /\ cells[log[2].n] = "''"

\* ---------------------------------------------------------------- C23
\* the expose calls of the setup function run by the step, as positions of
\* log l, and the definitions made
ExposeCalls(l) == {i \in DOMAIN l : l[i].e \in {"exposeF", "exposeFW"}}
Defines(l) == {i \in DOMAIN l : l[i].e = "define"}

FourArgForm(s) == DefineComponent(MapArg([k \in PropKeys |-> Absent]), s)

\* C24: defineComponent(name, options, s) defines what
\* defineComponent(name, options, {}, s) defines: s is the setup function run
\* by every construction, no attribute is observed, no element gets a
\* property accessor and a new element has no field
C24_ThreeArgFormIsEmptyDefs ==
    definition.a3.isFn =>
        LET s == definition.a3.script
        IN  /\ propDefs = FourArgForm(s).propDefs
            /\ definition.factory = FourArgForm(s).factory
            /\ definition.factory = s
            /\ ObservedAttributes = {}
            /\ \A n \in Nodes :
                   /\ accessors[n] = {}
                   /\ JustConstructed(n) => FieldKeys(n) = {}
            /\ LogOp = "construct" =>
                   RegSeq(log, LogNode, "onMounted") = [i \in 1 .. Len(s) |-> s[i].b]

\* an element of a class defined with the three-argument form, whose setup
\* function registered a callback, was constructed and connected
C24_Witness ==
    /\ definition.a3.isFn
    /\ LogOp = "connected"
    /\ \E i \in Idx : IsCb(i, "onMounted")

\* ---------------------------------------------------------------- C25
\* C25: every lifecycle helper call made by the setup function of X is
\* registered on X, also after X's setup function created another element,
\* and the provide calls of X's setup function bind in X's table
C25_NestedSetupKeepsTarget ==
    LogOp = "construct" =>
        /\ \A i \in Idx :
               log[i].e = "call" =>
                   /\ i < Len(log)
                   /\ log[i + 1] = Ev("reg", log[i].n, log[i].a, log[i].b)
        /\ \A i \in Idx : log[i].e # "error"

\* ---------------------------------------------------------------- C26
\* the steps of the render passes of element n made after its first pass, in
\* log order: the update callbacks run and the renders done
PassSteps(n) ==
    LET Test(e) ==
            /\ e.n = n
            /\ \/ e.e = "cb" /\ e.a \in UpdatePhases
               \/ e.e = "render" /\ e.a = "update"
        S == SelectSeq(log, Test)
    IN  [i \in 1 .. Len(S) |-> IF S[i].e = "render" THEN "render" ELSE S[i].a]

\* the steps of one complete pass of element n
OnePass(n) ==
    [i \in 1 .. Len(callbacks[n]["onBeforeUpdate"]) |-> "onBeforeUpdate"]
    \o <<"render">>
    \o [i \in 1 .. Len(callbacks[n]["onUpdated"]) |-> "onUpdated"]

\* C26: the render passes of an element are strictly sequential: the steps of
\* its passes are whole passes one after the other, so no pass starts before
\* the one in progress has run its last updated callback, also when an update
\* callback writes a field the render function reads
C26_PassesSequential ==
    \A n \in Nodes : IsRepetition(PassSteps(n), OnePass(n))

\* an update callback changed a rendered field during a pass
C26_Witness ==
    \E j \in Idx :
        /\ InPassWrite(j)
        /\ log[j].b = "changed"
        /\ log[j].a \in Reads

\* ---------------------------------------------------------------- C27
\* a step made by an accessor write, an attribute change, a provide call or a
\* lifecycle registration
OwnStep ==
    /\ log' # <<>>
    /\ log'[1].a \in {"set", "attributeChanged", "provide", "register"}

\* C27: an accessor write, attribute change, provide call or lifecycle
\* registration on element X leaves the props container, the dependency table
\* and the lifecycle table of every other element as they were
C27_OtherInstancesUnchanged ==
    [][OwnStep =>
         \A m \in Nodes \ {log'[1].n} :
             /\ props'[m] = props[m]
             /\ context'[m] = context[m]
             /\ callbacks'[m] = callbacks[m]]_vars

\* a field of one element was changed while the other element of the same
\* definition holds another value in that field
C27_Witness ==
    /\ LogOp \in {"set", "attributeChanged"}
    /\ \E m \in Nodes \ {LogNode} :
           /\ IsComp(m)
           /\ props[m]["title"] # props[LogNode]["title"]
    /\ \E i \in Idx : log[i].e = "write" /\ log[i].b = "changed"

\* ---------------------------------------------------------------- C28
\* C28: once the first render pass of an element is complete, every change of
\* a rendered field made outside a pass runs one whole pass, with all
\* before-update and all updated callbacks, whether or not the element is
\* connected
C28_HooksIgnoreConnection ==
    \A n \in Nodes :
        IsComp(n) =>
            /\ isMounted[n]
            /\ (LogNode = n /\ EffectiveWrites # {}) =>
                   /\ Len(PassSteps(n)) = Cardinality(EffectiveWrites) * Len(OnePass(n))
                   /\ IsRepetition(PassSteps(n), OnePass(n))

\* an attribute delivered while the element is not connected ran an updated
\* callback
C28_Witness ==
    /\ LogOp = "attributeChanged"
    /\ ~connected[LogNode]
    /\ \E i \in Idx : IsCb(i, "onUpdated")
    /\ \E i \in Idx : IsCb(i, "onBeforeUpdate")

\* ---------------------------------------------------------------- C29
\* the inject calls made by the setup function run in the step, free or on
\* the instance, as positions of log l
SetupInjects(l) == {i \in DOMAIN l : l[i].e \in {"injectF", "injectM"}}

\* whether a component instance on the parent chain of x binds k
RECURSIVE ProviderAbove(_, _)
ProviderAbove(x, k) ==
    IF parent[x] = Null THEN FALSE
    ELSE (kind[parent[x]] = "comp" /\ Bound(parent[x], k))
         \/ ProviderAbove(parent[x], k)

\* C29: an inject call made by the setup function of X while no component
\* instance on the parent chain of X binds the key (X is detached, or the
\* provider is not constructed yet) returns X's own binding, or else the
\* default or null; the value the setup function keeps is the one returned,
\* and no later attachment, provide or inject changes it
C29_InjectIsPointInTime ==
    [][/\ (log' # <<>> /\ log'[1].a = "construct") =>
              LET x == log'[1].n
              IN  /\ \A i \in SetupInjects(log') :
                         LET k == log'[i].a
                             d == log'[i].b
                             r == log'[CHOOSE j \in (i + 1) .. Len(log') :
                                          log'[j].e = "return"].b
                         IN  /\ injected'[x] = r
                             /\ ~ProviderAbove(x, k) =>
                                    IF context'[x][k] # NoBinding
                                    THEN r = context'[x][k]
                                    ELSE r \in {d, "null"}
                  /\ \A n \in Nodes \ {x} : injected'[n] = injected[n]
       /\ (log' # <<>> /\ log'[1].a # "construct") => injected' = injected]_vars

\* an element whose setup function got the absent value from inject now has
\* a component parent that binds the key
C29_Witness ==
    \E x \in Nodes :
        /\ injected[x] = "null"
        /\ ProviderAbove(x, "k1")
        /\ LogOp \in {"provide", "appendChild"}

\* ---------------------------------------------------------------- C30
\* C30: between operations, when no render pass is in progress, the values
\* last rendered into the root of an element are those the render function
\* yields from the current fields and cells, also after an update callback
\* wrote a rendered field
C30_RenderedIsCurrent ==
    \A n \in Nodes :
        IsComp(n) =>
            rendered[n] = ResolveRefs(Template(World, n), cells).output.values


====
